---- MODULE Spec2Model ----
(***************************************************************************)
(* Model of deployment/server/controlnet/1/sampler.py: the reverse         *)
(* diffusion sampling loop (AbstractBaseSampler.sample / sampling_fn), the  *)
(* guided denoise evaluator (_get_model_output / apply_model) and the two   *)
(* step integrators (PLMSSampler / DDIMSampler .p_sampling_fn).             *)
(*                                                                         *)
(* A tensor is represented by one element: every tensor operation of the   *)
(* source is elementwise or a broadcast of a per-index scalar.  Numbers are *)
(* exact rationals <<numerator, denominator>>.  None is the empty tuple     *)
(* and a supplied optional value v is the one-element tuple <<v>>.          *)
(*                                                                         *)
(* The two inference services are suspension points: an action runs the    *)
(* code from one service response to the next service request.             *)
(***************************************************************************)
EXTENDS Integers, Sequences, FiniteSets, TLC

\* ------------------------------------------------------------------ bounds
\* largest step budget S a caller passes to sample
MaxSteps == 4
\* largest step budget in the runs that vary control, corrector and guidance
MaxCtlSteps == 2

\* ------------------------------------------------------- program constants
ddpm_num_timesteps == 1000

\* ---------------------------------------------------------------- optionals
None == <<>>
Some(v) == <<v>>
IsNone(o) == o = <<>>
Val(o) == o[1]

\* ---------------------------------------------------------------- rationals
Abs(n) == IF n < 0 THEN -n ELSE n

RECURSIVE Gcd(_, _)
Gcd(a, b) == IF b = 0 THEN a ELSE Gcd(b, a % b)

Norm(n, d) ==
    LET s == IF d < 0 THEN -1 ELSE 1
        g == Gcd(Abs(n), Abs(d))
    IN  <<(s * n) \div g, (s * d) \div g>>

R(n) == <<n, 1>>
RAdd(a, b) == Norm(a[1] * b[2] + b[1] * a[2], a[2] * b[2])
RSub(a, b) == Norm(a[1] * b[2] - b[1] * a[2], a[2] * b[2])
RMul(a, b) == Norm(a[1] * b[1], a[2] * b[2])
RDiv(a, b) == Norm(a[1] * b[2], a[2] * b[1])
RLe(a, b) == a[1] * b[2] <= b[1] * a[2]
RMin(a, b) == IF RLe(a, b) THEN a ELSE b
\* int(): truncation toward zero
RTrunc(a) == IF a[1] >= 0 THEN a[1] \div a[2] ELSE -((-a[1]) \div a[2])

RECURSIVE SqrtIter(_, _)
SqrtIter(n, k) == IF k * k <= n THEN k ELSE SqrtIter(n, (k + n \div k) \div 2)
ISqrt(n) == IF n = 0 THEN 0 ELSE SqrtIter(n, n)
\* .sqrt() on the schedule's coefficients, whose roots are rational
RSqrt(a) == <<ISqrt(a[1]), ISqrt(a[2])>>

\* Python sequence helpers (0-based source indices on 1-based tuples)
Last(s) == s[Len(s)]
Flip(s) == [k \in 1..Len(s) |-> s[Len(s) + 1 - k]]
\* s[:e] with Python's meaning of a negative e
SliceTo(s, e) ==
    LET n == IF e < 0 THEN Len(s) + e ELSE e
        m == IF n < 0 THEN 0 ELSE IF n > Len(s) THEN Len(s) ELSE n
    IN  SubSeq(s, 1, m)

\* ------------------------------------------------- schedule (make_schedule)
\* np.round: round half to even, of the fraction num/den >= 0
RoundHalfEven(num, den) ==
    LET q == num \div den
        r == num % den
    IN  IF 2 * r < den THEN q
        ELSE IF 2 * r > den THEN q + 1
        ELSE IF q % 2 = 0 THEN q ELSE q + 1

\* uniform discretisation: round(linspace(0, total - 1, n)) + 1, ascending
make_ddim_timesteps(num_ddim_timesteps, num_ddpm_timesteps) ==
    [k \in 1..num_ddim_timesteps |->
        IF num_ddim_timesteps = 1 THEN 1
        ELSE RoundHalfEven((k - 1) * (num_ddpm_timesteps - 1), num_ddim_timesteps - 1) + 1]

\* cumulative alpha of the j-th level of the fast schedule (j = 0: the level
\* before the first fast step); strictly decreasing in j, inside (0, 1), and
\* chosen so that sqrt(alpha) and sqrt(1 - alpha) are both rational
AlphaCum(j) ==
    LET p == j + 1
        q == j + 3
        h == q * q + p * p
        root == Norm(q * q - p * p, h)
    IN  RMul(root, root)

\* make_ddim_sampling_parameters: <<sigmas, alphas, alphas_prev>> of the fast
\* schedule; sigmas are proportional to eta and vanish for eta = 0
make_ddim_sampling_parameters(n, eta) ==
    LET alphas == [k \in 1..n |-> AlphaCum(k)]
        alphas_prev == [k \in 1..n |-> AlphaCum(k - 1)]
        sigmas == [k \in 1..n |->
                     RMul(eta, RMul(<<3, 5>>, RSqrt(RSub(R(1), alphas_prev[k]))))]
    IN  <<sigmas, alphas, alphas_prev>>

\* line 84: np.sqrt(1.0 - ddim_alphas)
SqrtOneMinus(alphas) == [k \in 1..Len(alphas) |-> RSqrt(RSub(R(1), alphas[k]))]

\* ------------------------------------------------------ pure step functions
\* _get_x_prev_and_pred_x0 on the fast schedule (use_original_steps = False,
\* noise_dropout = 0); tab holds the sampler's ddim_* tables, index is the
\* 0-based coefficient index, noise_like the drawn standard-normal value
get_x_prev_and_pred_x0(tab, index, x, e_t, noise_like, temperature) ==
    LET a_t == tab.ddim_alphas[index + 1]
        a_prev == tab.ddim_alphas_prev[index + 1]
        sigma_t == tab.ddim_sigmas[index + 1]
        sqrt_one_minus_at == tab.ddim_sqrt_one_minus_alphas[index + 1]
        pred_x0 == RDiv(RSub(x, RMul(sqrt_one_minus_at, e_t)), RSqrt(a_t))
        dir_xt == RMul(RSqrt(RSub(RSub(R(1), a_prev), RMul(sigma_t, sigma_t))), e_t)
        noise == RMul(RMul(sigma_t, noise_like), temperature)
        x_prev == RAdd(RAdd(RMul(RSqrt(a_prev), pred_x0), dir_xt), noise)
    IN  <<x_prev, pred_x0>>

\* the multistep estimate reading the history oldest first
PlmsCombineOldestFirst(e_t, old_eps) ==
    LET n == Len(old_eps)
    IN  IF n = 1 THEN
            RDiv(RSub(RMul(R(3), e_t), old_eps[1]), R(2))
        ELSE IF n = 2 THEN
            RDiv(RAdd(RSub(RMul(R(23), e_t), RMul(R(16), old_eps[1])),
                      RMul(R(5), old_eps[2])), R(12))
        ELSE
            RDiv(RSub(RAdd(RSub(RMul(R(55), e_t), RMul(R(59), old_eps[1])),
                           RMul(R(37), old_eps[2])),
                      RMul(R(9), old_eps[3])), R(24))

\* PLMSSampler.p_sampling_fn lines 413-421: the multistep estimate from a
\* non-empty history (old_eps[-1] is the most recent entry)
PlmsCombine(e_t, old_eps) ==
    LET n == Len(old_eps)
    IN  IF n = 1 THEN
            RDiv(RSub(RMul(R(3), e_t), old_eps[n]), R(2))
        ELSE IF n = 2 THEN
            RDiv(RAdd(RSub(RMul(R(23), e_t), RMul(R(16), old_eps[n])),
                      RMul(R(5), old_eps[n - 1])), R(12))
        ELSE
            RDiv(RSub(RAdd(RSub(RMul(R(55), e_t), RMul(R(59), old_eps[n])),
                           RMul(R(37), old_eps[n - 1])),
                      RMul(R(9), old_eps[n - 2])), R(24))

\* line 412: the first step's average of the estimate and its lookahead
PlmsAverage(e_t, e_t_next) == RDiv(RAdd(e_t, e_t_next), R(2))

\* the history update evicting only beyond length 4
UpdateHistoryLate(old_eps, e_t) ==
    LET appended == Append(old_eps, e_t)
    IN  IF Len(appended) > 4 THEN Tail(appended) ELSE appended

\* sampling_fn lines 236-238: append, then evict the oldest at length 4
UpdateHistory(old_eps, e_t) ==
    LET appended == Append(old_eps, e_t)
    IN  IF Len(appended) >= 4 THEN Tail(appended) ELSE appended

\* _get_model_output line 259: a single composed-model call suffices
Unguided(unconditional_conditioning, unconditional_guidance_scale) ==
    IsNone(unconditional_conditioning) \/ unconditional_guidance_scale = R(1)

\* the guidance formula with the two branches exchanged
GuidanceComposeSwapped(model_t, model_uncond, unconditional_guidance_scale) ==
    RAdd(model_t, RMul(unconditional_guidance_scale, RSub(model_uncond, model_t)))

\* _get_model_output line 265
GuidanceCompose(model_t, model_uncond, unconditional_guidance_scale) ==
    RAdd(model_uncond, RMul(unconditional_guidance_scale, RSub(model_t, model_uncond)))

\* the blend with the roles of mask and 1 - mask exchanged
BlendSwapped(img_orig, mask, img) ==
    RAdd(RMul(img_orig, RSub(R(1), mask)), RMul(mask, img))

\* sampling_fn line 215
Blend(img_orig, mask, img) ==
    RAdd(RMul(img_orig, mask), RMul(RSub(R(1), mask), img))

\* the slice end without the trailing - 1
SubsetEndNoOffset(timesteps, n) ==
    RTrunc(RMul(RMin(Norm(timesteps, n), R(1)), R(n)))

\* sampling_fn line 191
SubsetEnd(timesteps, n) ==
    RTrunc(RMul(RMin(Norm(timesteps, n), R(1)), R(n))) - 1

\* sampling_fn lines 188-192 on the fast schedule: the ascending steps to run
SelectTimesteps(timesteps, ddim_ts) ==
    IF IsNone(timesteps) THEN ddim_ts
    ELSE SliceTo(ddim_ts, SubsetEnd(Val(timesteps), Len(ddim_ts)))

\* the probe running past a missing index and collecting every later output
RECURSIVE ProbeControlSkipping(_, _, _)
ProbeControlSkipping(control_out, k, len) ==
    IF k >= len THEN <<>>
    ELSE IF k \notin DOMAIN control_out
    THEN ProbeControlSkipping(control_out, k + 1, len)
    ELSE <<control_out[k]>> \o ProbeControlSkipping(control_out, k + 1, len)

\* apply_model lines 327-332: control_out maps the output indices k of its
\* control_k entries to tensors and also carries the 4 request inputs; probe
\* control_0, control_1, ... and stop at the first missing one
RECURSIVE ProbeControl(_, _, _)
ProbeControl(control_out, k, len) ==
    IF k >= len \/ k \notin DOMAIN control_out THEN <<>>
    ELSE <<control_out[k]>> \o ProbeControl(control_out, k + 1, len)

ExtractControl(control_out) ==
    ProbeControl(control_out, 0, 4 + Cardinality(DOMAIN control_out))

\* apply_model line 336: zip stops at the shorter of the two lists
ScaleControl(control, control_scales) ==
    LET n == IF Len(control) <= Len(control_scales) THEN Len(control)
             ELSE Len(control_scales)
    IN  [k \in 1..n |-> RMul(control[k], control_scales[k])]

\* the assertion on control_scales compiled away
ScalesUnchecked(control_scales, control) == FALSE

\* apply_model lines 334-335: the assertion on control_scales fails
ScalesMismatch(control_scales, control) ==
    ~IsNone(control_scales) /\ Len(Val(control_scales)) # Len(control)

\* the assertion on the parameterization compiled away
ParamUnchecked(score_corrector, param) == FALSE

\* _get_model_output lines 266-267: the assertion on the parameterization fails
ParamRejected(score_corrector, param) == score_corrector /\ param # "eps"

\* the lookahead branch also taken with one history entry
TakesLookaheadTwice(old_eps) == Len(old_eps) <= 1

\* PLMSSampler.p_sampling_fn line 388: the step takes the lookahead branch
TakesLookahead(old_eps) == Len(old_eps) = 0

\* the coefficient index counted from total instead of total - 1
CoefIndexOffByOne(total, k) == total - k

\* sampling_fn line 203
CoefIndex(total, k) == total - k - 1

\* the loop stopping one iteration early
LoopDoneEarly(k, total) == k + 1 >= total

\* sampling_fn line 202: the iterator is exhausted after k iterations
LoopDone(k, total) == k >= total

\* the lookahead handed the current timestep again
NextTimestepCurrent(range, k) == range[k + 1]

\* sampling_fn line 207: the timestep handed to the PLMS lookahead
NextTimestep(range, k) ==
    range[(IF k + 1 < Len(range) - 1 THEN k + 1 ELSE Len(range) - 1) + 1]

\* ------------------------------------------------------------------- state
VARIABLES
    \* the sampler object and its collaborators
    sampler,            \* self.sampler: "PLMS" or "DDIM"
    parameterization,   \* self.model.parameterization
    control_engine,     \* the control_k outputs of self.control_model.infer
    ddim_timesteps,     \* self.ddim_timesteps, ascending (<<>>: not built)
    tab,                \* self.ddim_sigmas/alphas/alphas_prev/sqrt_one_minus_alphas
    betas,              \* self.betas and the other full-length buffers
    \* the activation of sample / sampling_fn
    pc,                 \* "idle", "control", "model", "done", "failed"
    error,              \* the exception that ended the run ("" if none)
    args,               \* the arguments of the call
    time_range,         \* the traversal order (descending timesteps)
    total_steps,
    i,                  \* enumerate index of the loop
    img,
    old_eps,            \* Some(list) or None
    intermediates,      \* x_inter and pred_x0 lists
    \* the iteration in progress
    index, ts, ts_next, img_orig,
    \* p_sampling_fn / _get_model_output / apply_model in progress
    evalNo,             \* 1: the step's estimate, 2: the PLMS lookahead
    branch,             \* "cond" or "uncond" composed-model call
    xe, te,             \* the x and t of the evaluation in progress
    model_t,            \* conditional output kept for the guidance formula
    e_t,                \* the raw estimate kept across the lookahead
    \* history of the run, for stating properties
    calls,              \* inference-service requests, in order
    intLog              \* one record per step-integrator invocation

objVars == <<sampler, parameterization, control_engine, ddim_timesteps, tab, betas>>
runVars == <<pc, error, args, time_range, total_steps, i, img, old_eps, intermediates,
             index, ts, ts_next, img_orig, evalNo, branch, xe, te, model_t, e_t,
             calls, intLog>>
vars == <<objVars, runVars>>

\* the run-level state as one record, and its assignment to the next state
Cur ==
    [pc |-> pc, error |-> error, args |-> args, time_range |-> time_range,
     total_steps |-> total_steps, i |-> i, img |-> img, old_eps |-> old_eps,
     intermediates |-> intermediates, index |-> index, ts |-> ts, ts_next |-> ts_next,
     img_orig |-> img_orig, evalNo |-> evalNo, branch |-> branch, xe |-> xe, te |-> te,
     model_t |-> model_t, e_t |-> e_t, calls |-> calls, intLog |-> intLog]

SetInit(n) ==
    /\ pc = n.pc /\ error = n.error /\ args = n.args /\ time_range = n.time_range
    /\ total_steps = n.total_steps /\ i = n.i /\ img = n.img /\ old_eps = n.old_eps
    /\ intermediates = n.intermediates /\ index = n.index /\ ts = n.ts
    /\ ts_next = n.ts_next /\ img_orig = n.img_orig /\ evalNo = n.evalNo
    /\ branch = n.branch /\ xe = n.xe /\ te = n.te /\ model_t = n.model_t
    /\ e_t = n.e_t /\ calls = n.calls /\ intLog = n.intLog

Set(n) ==
    /\ pc' = n.pc /\ error' = n.error /\ args' = n.args /\ time_range' = n.time_range
    /\ total_steps' = n.total_steps /\ i' = n.i /\ img' = n.img /\ old_eps' = n.old_eps
    /\ intermediates' = n.intermediates /\ index' = n.index /\ ts' = n.ts
    /\ ts_next' = n.ts_next /\ img_orig' = n.img_orig /\ evalNo' = n.evalNo
    /\ branch' = n.branch /\ xe' = n.xe /\ te' = n.te /\ model_t' = n.model_t
    /\ e_t' = n.e_t /\ calls' = n.calls /\ intLog' = n.intLog

NoTab == [ddim_sigmas |-> <<>>, ddim_alphas |-> <<>>, ddim_alphas_prev |-> <<>>,
          ddim_sqrt_one_minus_alphas |-> <<>>]

NoArgs == [entry |-> "", S |-> 0, eta |-> R(0), timesteps |-> None, cond_hint |-> FALSE,
           uncond |-> None, scale |-> R(1), score_corrector |-> FALSE,
           control_scales |-> None, mask |-> None, x0 |-> None, log_every_t |-> 100,
           x_T |-> None]

\* the locals of a call that has not entered the loop
FreshRun(a) ==
    [pc |-> "idle", error |-> "", args |-> a, time_range |-> <<>>, total_steps |-> 0,
     i |-> 0, img |-> None, old_eps |-> Some(<<>>),
     intermediates |-> [x_inter |-> <<>>, pred_x0 |-> <<>>],
     index |-> 0, ts |-> 0, ts_next |-> None, img_orig |-> None,
     evalNo |-> 0, branch |-> "", xe |-> None, te |-> 0, model_t |-> None, e_t |-> None,
     calls |-> <<>>, intLog |-> <<>>]

Fail(st, exc) == [st EXCEPT !.pc = "failed", !.error = exc]

\* the exceptions a run can end with
ErrEta == "ValueError: ddim_eta must be 0 for PLMS"
ErrScales == "AssertionError: len(control_scales) == len(control)"
ErrParam == "AssertionError: parameterization == eps"
ErrX0 == "AssertionError: x0 is not None"

\* ------------------------------------------ the code between service calls
\* the record of the integrator invocation in progress, and its replacement
LastLog(st) == st.intLog[Len(st.intLog)]
LogLast(st, rec) == [st EXCEPT !.intLog[Len(st.intLog)] = rec]

Request(st, svc, control) ==
    [svc |-> svc, i |-> st.i, evalNo |-> st.evalNo, branch |-> st.branch,
     x |-> st.xe, t |-> st.te, control |-> control, out |-> None]

\* whether the conditioning of the composed-model call carries a hint
HasHint(a, br) == IF br = "cond" THEN a.cond_hint ELSE Val(a.uncond)

\* apply_model lines 305-324 / 344: up to the first service request
StartApply(st, br) ==
    LET note == [LastLog(st) EXCEPT !.applies = Append(@, [evalNo |-> st.evalNo,
                                              branch |-> br, x |-> st.xe, t |-> st.te])]
        s1 == LogLast([st EXCEPT !.branch = br], note)
    IN  IF HasHint(st.args, br)
        THEN [s1 EXCEPT !.pc = "control",
                        !.calls = Append(@, Request(s1, "control", <<>>))]
        ELSE [s1 EXCEPT !.pc = "model",
                        !.calls = Append(@, Request(s1, "model", <<>>))]

\* _get_model_output entered on (x, t): lines 259-263
StartEval(st, no, x, t) ==
    LET bump == [LastLog(st) EXCEPT !.evals = @ + 1, !.eval_x = Append(@, x),
                                    !.eval_t = Append(@, t)]
    IN  StartApply(LogLast([st EXCEPT !.evalNo = no, !.xe = x, !.te = t], bump), "cond")

\* sampling_fn lines 203-232: the head of iteration st.i up to its first
\* service request; qs is what self.model.q_sample returns
BeginIteration(st, smp, qs) ==
    LET idx == CoefIndex(st.total_steps, st.i)
        step == st.time_range[st.i + 1]
        nxt == IF smp = "PLMS" THEN Some(NextTimestep(st.time_range, st.i)) ELSE None
        eps == IF smp = "PLMS" THEN st.old_eps ELSE None
        a == st.args
        blended == IF IsNone(a.mask) THEN st.img ELSE Blend(qs, Val(a.mask), st.img)
        s1 == [st EXCEPT !.index = idx, !.ts = step, !.ts_next = nxt, !.old_eps = eps,
                         !.img_orig = IF IsNone(a.mask) THEN None ELSE Some(qs),
                         !.img = blended, !.e_t = None, !.model_t = None]
        rec == [i |-> st.i, index |-> idx, ts |-> step, ts_next |-> nxt,
                img_before |-> st.img, img_orig |-> s1.img_orig, x |-> blended,
                old_eps |-> eps, evals |-> 0, eval_x |-> <<>>, eval_t |-> <<>>,
                applies |-> <<>>, e_comp |-> <<>>, e_raw |-> <<>>, e_t_prime |-> None, x_prev |-> None, pred_x0 |-> None,
                returned |-> FALSE, logged |-> FALSE]
    IN  IF ~IsNone(a.mask) /\ IsNone(a.x0)
        THEN Fail([st EXCEPT !.index = idx, !.ts = step, !.ts_next = nxt,
                             !.old_eps = eps], ErrX0)
        ELSE StartEval([s1 EXCEPT !.intLog = Append(@, rec)], 1, blended, step)

\* the logging test without the clause for the first iteration
LogsAtStrideOnly(idx, log_every_t, total) == idx % log_every_t = 0

\* sampling_fn line 243: whether the iteration's outputs are logged
LogsAt(idx, log_every_t, total) == idx % log_every_t = 0 \/ idx = total - 1

\* sampling_fn lines 233-246: the iteration's tail, then the next iteration
\* or the return
EndIteration(st, smp, outs, ePrime, qs) ==
    LET x_prev == outs[1]
        pred_x0 == outs[2]
        eps == IF smp = "PLMS" THEN Some(UpdateHistory(Val(st.old_eps), outs[3]))
               ELSE st.old_eps
        logs == LogsAt(st.index, st.args.log_every_t, st.total_steps)
        inter == IF logs
                 THEN [x_inter |-> Append(st.intermediates.x_inter, x_prev),
                       pred_x0 |-> Append(st.intermediates.pred_x0, pred_x0)]
                 ELSE st.intermediates
        fin == [LastLog(st) EXCEPT !.e_t_prime = Some(ePrime), !.x_prev = Some(x_prev),
                                   !.pred_x0 = Some(pred_x0), !.returned = TRUE,
                                   !.logged = logs]
        s1 == LogLast([st EXCEPT !.img = x_prev, !.old_eps = eps,
                                 !.intermediates = inter, !.i = @ + 1], fin)
    IN  IF LoopDone(s1.i, s1.total_steps) THEN [s1 EXCEPT !.pc = "done"]
        ELSE BeginIteration(s1, smp, qs)

\* the sampler's tables as _get_x_prev_and_pred_x0 reads them; temperature
\* keeps its default 1.0
Reconstruct(tb, idx, x, e, noise_like) ==
    get_x_prev_and_pred_x0(tb, idx, x, e, noise_like, R(1))

\* DDIMSampler.p_sampling_fn lines 474-477, after its evaluation returned e
DdimStep(st, tb, e, inp) ==
    LET outs == Reconstruct(tb, st.index, st.img, e, inp.noise)
    IN  EndIteration(st, "DDIM", outs, e, inp.qs)

\* PLMSSampler.p_sampling_fn lines 388-436, after an evaluation returned e
PlmsStep(st, tb, e, inp) ==
    LET x == st.img
        hist == Val(st.old_eps)
    IN  IF st.evalNo = 1 /\ TakesLookahead(hist) THEN
            \* lookahead on the provisional state at t_next
            LET prov == Reconstruct(tb, st.index, x, e, inp.noise)
            IN  StartEval([st EXCEPT !.e_t = Some(e)], 2, prov[1], Val(st.ts_next))
        ELSE
            LET raw == IF st.evalNo = 2 THEN Val(st.e_t) ELSE e
                e_t_prime == IF st.evalNo = 2 THEN PlmsAverage(raw, e)
                             ELSE PlmsCombine(e, hist)
                outs == Reconstruct(tb, st.index, x, e_t_prime, inp.noise)
            IN  EndIteration([st EXCEPT !.e_t = Some(raw)], "PLMS",
                             <<outs[1], outs[2], raw>>, e_t_prime, inp.qs)

\* _get_model_output lines 266-269 and the return into p_sampling_fn; hook is
\* what score_corrector.modify_score adds to the estimate
AfterCompose(st, smp, param, tb, e, inp) ==
    LET a == st.args
        e2 == IF a.score_corrector THEN RAdd(e, inp.hook) ELSE e
        rec == [LastLog(st) EXCEPT !.e_raw = Append(@, e2)]
        s1 == LogLast(st, rec)
    IN  IF ParamRejected(a.score_corrector, param)
        THEN Fail(st, ErrParam)
        ELSE IF smp = "PLMS" THEN PlmsStep(s1, tb, e2, inp)
        ELSE DdimStep(s1, tb, e2, inp)

\* apply_model line 344 returned out: _get_model_output lines 260-265
OnModel(st0, smp, param, tb, out, inp) ==
    LET a == st0.args
        st == [st0 EXCEPT !.calls[Len(st0.calls)].out = Some(out)]
        comp(e) == LogLast(st, [LastLog(st) EXCEPT !.e_comp = Append(@, e)])
    IN  IF Unguided(a.uncond, a.scale) THEN AfterCompose(comp(out), smp, param, tb, out, inp)
        ELSE IF st.branch = "cond"
        THEN StartApply([st EXCEPT !.model_t = Some(out)], "uncond")
        ELSE LET e == GuidanceCompose(Val(st.model_t), out, a.scale)
             IN  AfterCompose(comp(e), smp, param, tb, e, inp)

\* apply_model lines 324-344: the control service returned control_out
OnControl(st, control_out) ==
    LET control == ExtractControl(control_out)
        cs == st.args.control_scales
    IN  IF ScalesMismatch(cs, control)
        THEN Fail(st, ErrScales)
        ELSE LET scaled == IF IsNone(cs) THEN control
                           ELSE ScaleControl(control, Val(cs))
             IN  [st EXCEPT !.pc = "model",
                            !.calls = Append(@, Request(st, "model", scaled))]

\* sampling_fn lines 182-202: from the call to the first service request
EnterLoop(a, smp, ddim_ts, randn, qs) ==
    LET x_T == IF IsNone(a.x_T) THEN randn ELSE Val(a.x_T)
        steps == SelectTimesteps(a.timesteps, ddim_ts)
        s0 == [FreshRun(a) EXCEPT !.img = x_T,
                  !.intermediates = [x_inter |-> <<x_T>>, pred_x0 |-> <<x_T>>],
                  !.time_range = Flip(steps), !.total_steps = Len(steps),
                  !.old_eps = Some(<<>>)]
    IN  IF LoopDone(0, Len(steps)) THEN [s0 EXCEPT !.pc = "done"]
        ELSE BeginIteration(s0, smp, qs)

\* ------------------------------------------------------- inputs of the model
\* logits the denoising service may return
ModelOuts == {R(0), R(2)}
\* the control services a sampler may be built on: two contiguous outputs, or
\* control_0 and control_2 with control_1 missing
ControlEngines == {(0 :> R(1)) @@ (1 :> R(3)), (0 :> R(1)) @@ (2 :> R(5))}
\* torch.randn / noise_like draws
NoiseOuts == {R(-1), R(1)}
\* what score_corrector.modify_score adds to the estimate
HookOuts == {R(1)}
\* what self.model.q_sample(x0, ts) may return for the known pixels x0
QSampleOuts(x0) == IF IsNone(x0) THEN {R(0)} ELSE {Val(x0), RAdd(Val(x0), R(1))}

\* the draws a continuation can read: a value that is multiplied by a zero
\* sigma, or belongs to a hook or a mask that is absent, is not drawn
Inputs(a, tb) ==
    [noise : IF \A k \in DOMAIN tb.ddim_sigmas : tb.ddim_sigmas[k] = R(0)
             THEN {R(1)} ELSE NoiseOuts,
     hook : IF a.score_corrector THEN HookOuts ELSE {R(0)},
     qs : IF IsNone(a.mask) THEN {R(0)} ELSE QSampleOuts(a.x0)]

RandnOuts(a) == IF IsNone(a.x_T) THEN NoiseOuts ELSE {R(1)}

\* ------------------------------------------------------------------ actions
Idle == pc = "idle"

\* make_schedule lines 44-90 (and PLMSSampler.make_schedule line 355, which
\* passes ddim_eta = 0.0 on): every table is rebuilt
BuildSchedule(ddim_num_steps, ddim_eta) ==
    LET ts_ == make_ddim_timesteps(ddim_num_steps, ddpm_num_timesteps)
        p == make_ddim_sampling_parameters(Len(ts_), ddim_eta)
    IN  [ddim_timesteps |-> ts_,
         tab |-> [ddim_sigmas |-> p[1], ddim_alphas |-> p[2], ddim_alphas_prev |-> p[3],
                  ddim_sqrt_one_minus_alphas |-> SqrtOneMinus(p[2])]]

\* the eta check applied to every sampler
EtaRejectedAlways(smp, ddim_eta) == ddim_eta # R(0)

\* PLMSSampler.make_schedule lines 353-354
EtaRejected(smp, ddim_eta) == smp = "PLMS" /\ ddim_eta # R(0)

\* sample(S, ..., eta, ...) lines 123-158 up to the first service request
sample(a) ==
    /\ Idle
    /\ a.entry = "sample"
    /\ UNCHANGED <<sampler, parameterization, control_engine>>
    /\ IF EtaRejected(sampler, a.eta)
       THEN /\ Set(Fail(FreshRun(a), ErrEta))
            /\ UNCHANGED <<ddim_timesteps, tab, betas>>
       ELSE LET b == BuildSchedule(a.S, a.eta)
            IN  /\ ddim_timesteps' = b.ddim_timesteps
                /\ tab' = b.tab
                /\ betas' = "linear"
                /\ \E randn \in RandnOuts(a), inp \in Inputs(a, b.tab) :
                      Set(EnterLoop(a, sampler, b.ddim_timesteps, randn, inp.qs))

\* sampling_fn(cond, shape, timesteps = ...) called on a sampler whose fast
\* schedule is built (ddim_use_original_steps = False)
sampling_fn(a) ==
    /\ Idle
    /\ a.entry = "sampling_fn"
    /\ ddim_timesteps # <<>>
    /\ UNCHANGED objVars
    /\ \E randn \in RandnOuts(a), inp \in Inputs(a, tab) :
          Set(EnterLoop(a, sampler, ddim_timesteps, randn, inp.qs))

\* self.control_model.infer returns
ControlInfer ==
    /\ pc = "control"
    /\ UNCHANGED objVars
    /\ Set(OnControl(Cur, control_engine))

\* self.model.infer returns
ModelInfer ==
    /\ pc = "model"
    /\ UNCHANGED objVars
    /\ \E out \in ModelOuts, inp \in Inputs(args, tab) :
          Set(OnModel(Cur, sampler, parameterization, tab, out, inp))

\* sample / sampling_fn returned to its caller or raised: the activation is
\* gone, the sampler object keeps its tables
Return ==
    /\ pc \in {"done", "failed"}
    /\ UNCHANGED objVars
    /\ Set(FreshRun(NoArgs))

\* ----------------------------------------------------------- specifications
InitObj(Samplers, Params, Engines) ==
    /\ sampler \in Samplers
    /\ parameterization \in Params
    /\ control_engine \in Engines
    /\ ddim_timesteps = <<>>
    /\ tab = NoTab
    /\ betas = "unset"
    /\ SetInit(FreshRun(NoArgs))

\* Spec: step budget, eta and guidance vary, on both samplers; no hint
StepArgs ==
    [entry : {"sample"}, S : 1..MaxSteps, eta : {R(0), R(1)}, timesteps : {None},
     cond_hint : {FALSE}, uncond : {None, Some(FALSE)}, scale : {R(1), <<3, 2>>},
     score_corrector : {FALSE}, control_scales : {None},
     mask : {None}, x0 : {None}, log_every_t : {100}, x_T : {Some(R(1))}]

Init == InitObj({"PLMS", "DDIM"}, {"eps"}, {(0 :> R(1)) @@ (1 :> R(3))})

Next ==
    \/ \E a \in StepArgs : sample(a)
    \/ ModelInfer
    \/ Return

Spec == Init /\ [][Next]_vars

\* SpecCtl: hint, guidance, control_scales, corrector, parameterization and
\* the control service vary, on short runs
CtlArgs ==
    [entry : {"sample"}, S : 1..MaxCtlSteps, eta : {R(0), R(1)}, timesteps : {None},
     cond_hint : BOOLEAN, uncond : {None, Some(FALSE), Some(TRUE)},
     scale : {R(1), <<3, 2>>}, score_corrector : BOOLEAN,
     control_scales : {None, Some(<<R(2)>>), Some(<<R(2), R(3)>>)},
     mask : {None}, x0 : {None}, log_every_t : {100}, x_T : {Some(R(1))}]

InitCtl == InitObj({"PLMS", "DDIM"}, {"eps", "v"}, ControlEngines)

NextCtl ==
    \/ \E a \in CtlArgs : sample(a)
    \/ ControlInfer
    \/ ModelInfer
    \/ Return

SpecCtl == InitCtl /\ [][NextCtl]_vars

\* SpecMask: the inpainting mask and the known pixels vary, eta = 0
MaskArgs ==
    [entry : {"sample"}, S : 1..MaxSteps, eta : {R(0)}, timesteps : {None},
     cond_hint : {FALSE}, uncond : {None}, scale : {R(1)},
     score_corrector : {FALSE}, control_scales : {None},
     mask : {None, Some(R(0)), Some(R(1)), Some(<<1, 2>>)}, x0 : {None, Some(R(3))},
     log_every_t : {100}, x_T : {Some(R(1))}]

NextMask ==
    \/ \E a \in MaskArgs : sample(a)
    \/ ModelInfer
    \/ Return

SpecMask == Init /\ [][NextMask]_vars

\* SpecSub: sample builds the schedule, then sampling_fn is called on it with
\* or without an explicit timesteps; the logging stride varies
SubArgs ==
    [entry : {"sample"}, S : 1..MaxSteps, eta : {R(0)}, timesteps : {None},
     cond_hint : {FALSE}, uncond : {None}, scale : {R(1)},
     score_corrector : {FALSE}, control_scales : {None},
     mask : {None}, x0 : {None}, log_every_t : {1, 2, 3, 100}, x_T : {Some(R(1))}]

SubFnArgs ==
    [entry : {"sampling_fn"}, S : {0}, eta : {R(0)},
     timesteps : {None} \cup {Some(n) : n \in 0..(MaxSteps + 1)},
     cond_hint : {FALSE}, uncond : {None}, scale : {R(1)},
     score_corrector : {FALSE}, control_scales : {None},
     mask : {None}, x0 : {None}, log_every_t : {1, 2, 3, 100}, x_T : {Some(R(1))}]

NextSub ==
    \/ \E a \in SubArgs : sample(a)
    \/ \E a \in SubFnArgs : sampling_fn(a)
    \/ ModelInfer
    \/ Return

SpecSub == Init /\ [][NextSub]_vars

\* ============================================================== properties
Min(a, b) == IF a <= b THEN a ELSE b

\* the raw estimate of iteration k (1-based): what the step's own evaluation
\* returned
RawOf(k) == intLog[k].e_raw[1]

ModelCalls == {n \in 1..Len(calls) : calls[n].svc = "model"}
ControlCalls == {n \in 1..Len(calls) : calls[n].svc = "control"}
\* the denoising-model requests of iteration k (1-based)
ModelCallsIn(k) == {n \in ModelCalls : calls[n].i = k - 1}

RunUnguided == IsNone(args.uncond) \/ args.scale = R(1)

\* C1: in a PLMS run the history holds at most 3 entries at every integrator
\* invocation and after every history update, and after k iterations it holds
\* exactly the raw estimates of the last min(k, 3) iterations, oldest first
\* (after the 4th: those of iterations 2, 3, 4, the 1st evicted).
C1_HistoryBounded ==
    sampler = "PLMS" =>
        /\ ~IsNone(old_eps)
        /\ Len(Val(old_eps)) <= 3
        /\ \A k \in 1..Len(intLog) : Len(Val(intLog[k].old_eps)) <= 3
        /\ LET d == Min(i, 3)
           IN  /\ Len(Val(old_eps)) = d
               /\ \A j \in 1..d : Val(old_eps)[j] = RawOf(i - d + j)

C1_Witness ==
    /\ sampler = "PLMS"
    /\ i >= 4
    /\ Len(Val(old_eps)) = 3
    /\ \A j \in 1..3 : Val(old_eps)[j] # RawOf(1)

\* C2: in an unguided PLMS run of N steps the first iteration makes 2 model
\* evaluations and every later iteration 1, N + 1 in the whole run.
C2_PlmsEvaluations ==
    (sampler = "PLMS" /\ args.entry = "sample" /\ RunUnguided) =>
        /\ \A k \in 1..Len(intLog) :
              LET r == intLog[k]
                  quota == IF k = 1 THEN 2 ELSE 1
              IN  /\ r.evals <= quota
                  /\ Cardinality(ModelCallsIn(k)) = r.evals
                  /\ r.returned => r.evals = quota
        /\ pc = "done" => /\ Len(intLog) = args.S
                          /\ Cardinality(ModelCalls) = args.S + 1

C2_Witness ==
    /\ sampler = "PLMS" /\ RunUnguided /\ pc = "done"
    /\ args.S >= 3
    /\ Cardinality(ModelCalls) = args.S + 1

\* the Adams-Bashforth weights of the order-(d + 1) estimate, current first
ABWeights(d) ==
    IF d = 1 THEN <<3, -1>> ELSE IF d = 2 THEN <<23, -16, 5>> ELSE <<55, -59, 37, -9>>
ABDivisor(d) == IF d = 1 THEN 2 ELSE IF d = 2 THEN 12 ELSE 24

\* sum over m = 1..n of w[m] times the raw estimate of iteration k - m + 1
RECURSIVE WeightedRaw(_, _, _)
WeightedRaw(w, k, n) ==
    IF n = 0 THEN R(0)
    ELSE RAdd(WeightedRaw(w, k, n - 1), RMul(R(w[n]), RawOf(k - n + 1)))

\* C10: at PLMS iteration k (1-based) the integrator sees the raw estimates
\* of the min(k - 1, 3) preceding iterations, combines them with the current
\* raw estimate by the Adams-Bashforth weights, most recent first, leaves the
\* history as it was passed, and the driver appends the raw estimate.
C10_PlmsCombination ==
    sampler = "PLMS" =>
        /\ \A k \in 1..Len(intLog) :
              LET r == intLog[k]
                  h == Val(r.old_eps)
                  d == Min(k - 1, 3)
              IN  /\ Len(h) = d
                  /\ \A j \in 1..d : h[j] = RawOf(k - 1 - d + j)
                  /\ (r.returned /\ k >= 2) =>
                        Val(r.e_t_prime) =
                            RDiv(WeightedRaw(ABWeights(d), k, d + 1), R(ABDivisor(d)))
                  /\ (r.returned /\ k = Len(intLog)) => Last(Val(old_eps)) = RawOf(k)
        /\ pc \in {"control", "model"} => old_eps = Last(intLog).old_eps

C10_Witness ==
    /\ sampler = "PLMS"
    /\ Len(intLog) >= 4
    /\ intLog[4].returned
    /\ Len(Val(intLog[4].old_eps)) = 3
    /\ Val(intLog[4].e_t_prime) # RawOf(4)
    /\ RawOf(1) # RawOf(3)

\* C6: a PLMS sample call with eta # 0 raises at schedule build, with no
\* service request made and every schedule table as the previous run left
\* it; a PLMS call with eta = 0 and any DDIM call pass the check and rebuild
\* the tables.
C6_EtaCheck ==
    [][(pc = "idle" /\ pc' # "idle") =>
          IF sampler = "PLMS" /\ args'.eta # R(0)
          THEN /\ pc' = "failed" /\ error' = ErrEta
               /\ calls' = <<>> /\ intLog' = <<>>
               /\ ddim_timesteps' = ddim_timesteps /\ tab' = tab /\ betas' = betas
          ELSE /\ error' # ErrEta
               /\ Len(ddim_timesteps') = args'.S
               /\ Len(tab'.ddim_sigmas) = args'.S
               /\ betas' = "linear"]_vars

C6_Witness ==
    /\ pc = "failed" /\ error = ErrEta
    /\ sampler = "PLMS" /\ args.eta # R(0)
    /\ ddim_timesteps # <<>> /\ Len(ddim_timesteps) # args.S
    /\ calls = <<>>

\* C7: a DDIM run started through sample whose step plan holds S timesteps
\* ends after exactly S iterations, each one integrator call (one model
\* evaluation when unguided) with coefficient index S - 1, S - 2, ..., 0 in
\* that order and no history.
C7_DdimIterations ==
    (sampler = "DDIM" /\ args.entry = "sample" /\ pc \in {"control", "model", "done"}
        /\ Len(ddim_timesteps) = args.S) =>
        /\ Len(intLog) <= args.S
        /\ \A k \in 1..Len(intLog) :
              LET r == intLog[k]
              IN  /\ r.i = k - 1
                  /\ r.index = args.S - k
                  /\ IsNone(r.old_eps)
                  /\ r.returned \/ (k = Len(intLog) /\ pc # "done")
                  /\ RunUnguided => (r.evals = 1 /\ Cardinality(ModelCallsIn(k)) = 1)
        /\ pc = "done" <=> (Len(intLog) = args.S /\ Last(intLog).returned)
        /\ IsNone(old_eps)

C7_Witness ==
    /\ sampler = "DDIM" /\ pc = "done"
    /\ args.S >= 3
    /\ Len(intLog) = args.S
    /\ Last(intLog).index = 0
    /\ RunUnguided

\* the composed-model calls of evaluation n of the integrator invocation r
AppliesOf(r, n) == SelectSeq(r.applies, LAMBDA a : a.evalNo = n)

\* the logits returned to the composed-model call of iteration k, evaluation
\* n, branch br
LogitsOf(k, n, br) ==
    LET c == CHOOSE m \in ModelCalls :
                 calls[m].i = k - 1 /\ calls[m].evalNo = n /\ calls[m].branch = br
    IN  Val(calls[c].out)

\* C3: an invocation of _get_model_output makes one composed-model call when
\* the unconditional conditioning is absent or the scale is 1.0, otherwise
\* two (conditional, then unconditional, same x and t), and composes
\* uncond_out + scale * (cond_out - uncond_out).
C3_GuidedEvaluation ==
    \A k \in 1..Len(intLog) :
        LET r == intLog[k]
        IN  \A n \in 1..r.evals :
                LET ap == AppliesOf(r, n)
                    completed == Len(r.e_comp) >= n
                IN  /\ Len(ap) >= 1
                    /\ ap[1].branch = "cond"
                    /\ ap[1].x = r.eval_x[n] /\ ap[1].t = r.eval_t[n]
                    /\ IF RunUnguided
                       THEN /\ Len(ap) = 1
                            /\ completed => r.e_comp[n] = LogitsOf(k, n, "cond")
                       ELSE /\ Len(ap) <= 2
                            /\ Len(ap) = 2 =>
                                  /\ ap[2].branch = "uncond"
                                  /\ ap[2].x = ap[1].x /\ ap[2].t = ap[1].t
                            /\ completed =>
                                  /\ Len(ap) = 2
                                  /\ LET c == LogitsOf(k, n, "cond")
                                         u == LogitsOf(k, n, "uncond")
                                     IN  r.e_comp[n] =
                                            RAdd(u, RMul(args.scale, RSub(c, u)))
                    /\ (completed /\ ~args.score_corrector /\ Len(r.e_raw) >= n) =>
                          r.e_raw[n] = r.e_comp[n]

C3_Witness ==
    /\ Len(intLog) >= 1
    /\ Len(intLog[1].e_comp) >= 1
    /\ ~RunUnguided
    /\ args.scale = <<3, 2>>
    /\ Len(AppliesOf(intLog[1], 1)) = 2
    /\ LogitsOf(1, 1, "cond") = R(2)
    /\ LogitsOf(1, 1, "uncond") = R(0)
    /\ intLog[1].e_comp[1] = R(3)

\* the number of control outputs the control service returns: control_0 up
\* to the first missing index
NumControlOutputs ==
    CHOOSE n \in 0..Cardinality(DOMAIN control_engine) :
        /\ \A k \in 0..(n - 1) : k \in DOMAIN control_engine
        /\ n \notin DOMAIN control_engine

RunStarted == pc # "idle" /\ error # ErrEta

\* C5: when the conditioning carries a hint and control_scales has another
\* length than the control outputs, the run fails with the assertion error in
\* its first composed-model call, after the control request and with no
\* denoising-model request made.
C5_ScalesMismatch ==
    (RunStarted /\ args.cond_hint /\ ~IsNone(args.control_scales)
        /\ Len(Val(args.control_scales)) # NumControlOutputs) =>
        /\ ModelCalls = {}
        /\ pc \in {"control", "failed"}
        /\ pc = "failed" => error = ErrScales
        /\ Len(calls) = 1
        /\ calls[1].svc = "control" /\ calls[1].i = 0 /\ calls[1].evalNo = 1
        /\ calls[1].branch = "cond"
        /\ Len(intLog) = 1 /\ Len(intLog[1].applies) = 1

C5_Witness ==
    /\ pc = "failed" /\ error = ErrScales
    /\ args.cond_hint
    /\ Len(Val(args.control_scales)) < NumControlOutputs
    /\ ModelCalls = {}
    /\ Len(calls) = 1

\* C4 as stated: every precondition violation fails the run before any
\* inference-service request has been made in it.
C4_FailsBeforeAnyCall ==
    pc = "failed" => calls = <<>>

\* C4 amended: a nonzero eta with PLMS always fails the run before any
\* service request; a control_scales mismatch fails it in the first
\* composed-model call that carries a hint, after that call's control request
\* and before its denoising request; a corrector on a model that is not
\* eps-parameterized fails it at the end of the first evaluation of the first
\* iteration, after that evaluation's 1 or 2 denoising requests and before
\* any integration, history update or log entry.
C4_FailurePoints ==
    /\ (sampler = "PLMS" /\ args.eta # R(0) /\ pc # "idle") =>
          (pc = "failed" /\ error = ErrEta)
    /\ (RunStarted /\ args.score_corrector /\ parameterization # "eps") =>
          /\ pc # "done"
          /\ Len(intLog) = 1 /\ intLog[1].evals = 1 /\ ~intLog[1].returned
          /\ pc = "failed" => error \in {ErrParam, ErrScales}
    /\ pc = "failed" =>
          /\ error \in {ErrEta, ErrScales, ErrParam}
          /\ error = ErrEta =>
                (calls = <<>> /\ intLog = <<>> /\ sampler = "PLMS" /\ args.eta # R(0))
          /\ error = ErrScales =>
                /\ Cardinality(ControlCalls) = 1
                /\ Last(calls).svc = "control"
                /\ HasHint(args, Last(calls).branch)
                /\ Len(Val(args.control_scales)) # NumControlOutputs
                /\ \A n \in 1..(Len(calls) - 1) : ~HasHint(args, calls[n].branch)
                /\ Len(intLog) = 1 /\ intLog[1].evals = 1 /\ ~intLog[1].returned
          /\ error = ErrParam =>
                /\ args.score_corrector /\ parameterization # "eps"
                /\ Cardinality(ModelCalls) = (IF RunUnguided THEN 1 ELSE 2)
                /\ Last(calls).svc = "model" /\ ~IsNone(Last(calls).out)
                /\ Len(intLog) = 1 /\ intLog[1].evals = 1 /\ ~intLog[1].returned
                /\ Len(intLog[1].e_comp) = 1
                /\ i = 0 /\ old_eps \in {None, Some(<<>>)}
                /\ Len(intermediates.x_inter) = 1

C4_Witness ==
    /\ pc = "failed" /\ error = ErrParam
    /\ Cardinality(ModelCalls) = 2
    /\ Cardinality(ControlCalls) = 2

\* C8: with a mask and known pixels the blend is applied in every iteration
\* before the integrator call: an all-zeros mask hands the integrator the x
\* the previous iteration left, an all-ones mask hands it the known pixels
\* noised to the current timestep whatever the previous x was, and the
\* step's output is then the one reconstructed from those noised pixels.
C8_MaskBlend ==
    \A k \in 1..Len(intLog) :
        LET r == intLog[k]
            before == IF k = 1 THEN Val(args.x_T) ELSE Val(intLog[k - 1].x_prev)
        IN  /\ r.img_before = before
            /\ r.eval_x[1] = r.x
            /\ IsNone(args.mask) => (IsNone(r.img_orig) /\ r.x = before)
            /\ ~IsNone(args.mask) =>
                  /\ ~IsNone(args.x0)
                  /\ ~IsNone(r.img_orig)
                  /\ Val(r.img_orig) \in QSampleOuts(args.x0)
                  /\ r.x = RAdd(RMul(Val(r.img_orig), Val(args.mask)),
                                RMul(RSub(R(1), Val(args.mask)), before))
                  /\ Val(args.mask) = R(0) => r.x = before
                  /\ Val(args.mask) = R(1) =>
                        /\ r.x = Val(r.img_orig)
                        /\ r.returned =>
                              Val(r.x_prev) =
                                 get_x_prev_and_pred_x0(tab, r.index, Val(r.img_orig),
                                                        Val(r.e_t_prime), R(0), R(1))[1]
                        /\ (r.returned /\ pc = "done" /\ k = Len(intLog)) =>
                              img = Val(r.x_prev)

C8_Witness ==
    /\ pc = "done"
    /\ args.mask = Some(R(1))
    /\ Len(intLog) >= 2
    /\ intLog[2].x = Val(intLog[2].img_orig)
    /\ intLog[2].img_before # intLog[2].x

\* C9: the timesteps a run of sampling_fn visits are a prefix of the
\* ascending step plan taken in strictly decreasing order, each passed with
\* its position in the ascending plan as coefficient index, in a truncated
\* run as in a full one; the last iteration uses index 0.
C9_IndexAlignment ==
    pc \in {"control", "model", "done"} =>
        LET asc == Flip(time_range)
        IN  /\ Len(asc) <= Len(ddim_timesteps)
            /\ asc = SubSeq(ddim_timesteps, 1, Len(asc))
            /\ total_steps = Len(time_range)
            /\ \A k \in 1..Len(intLog) :
                  LET r == intLog[k]
                  IN  /\ r.ts = time_range[k]
                      /\ r.eval_t[1] = r.ts
                      /\ r.index \in 0..(Len(ddim_timesteps) - 1)
                      /\ ddim_timesteps[r.index + 1] = r.ts
                      /\ k > 1 => r.ts < intLog[k - 1].ts
            /\ (pc = "done" /\ intLog # <<>>) =>
                  (Len(intLog) = Len(time_range) /\ Last(intLog).index = 0)

C9_Witness ==
    /\ pc = "done"
    /\ args.entry = "sampling_fn" /\ ~IsNone(args.timesteps)
    /\ Len(time_range) >= 2
    /\ Len(time_range) < Len(ddim_timesteps)
    /\ Last(intLog).index = 0

\* the service requests of the composed-model call ap of iteration k
CallsOf(k, ap) ==
    {n \in 1..Len(calls) : /\ calls[n].i = k - 1
                           /\ calls[n].evalNo = ap.evalNo
                           /\ calls[n].branch = ap.branch}

\* what the denoising model is due from the control service: the outputs
\* control_0 up to the first missing index, in order, each multiplied by the
\* control_scales entry at its position when control_scales is supplied
ExpectedControl ==
    [k \in 1..NumControlOutputs |->
        IF IsNone(args.control_scales) THEN control_engine[k - 1]
        ELSE RMul(control_engine[k - 1], Val(args.control_scales)[k])]

\* C11: every service request belongs to one composed-model call and carries
\* its x and t; a call whose conditioning has no hint makes no control
\* request and one denoising request without control inputs; a call whose
\* conditioning has a hint makes one control request, then at most one
\* denoising request, right after it, which carries the contiguous control
\* outputs up to the first missing index, in order, scaled by position when
\* control_scales is supplied; the denoising request is missing only while
\* the control request is pending or when the lengths differ and the call
\* has failed.
C11_ControlThenModel ==
    /\ \A n \in 1..Len(calls) :
          /\ calls[n].i + 1 \in 1..Len(intLog)
          /\ \E m \in 1..Len(intLog[calls[n].i + 1].applies) :
                n \in CallsOf(calls[n].i + 1, intLog[calls[n].i + 1].applies[m])
    /\ \A k \in 1..Len(intLog) :
          \A m \in 1..Len(intLog[k].applies) :
              LET ap == intLog[k].applies[m]
                  cs == CallsOf(k, ap)
                  ctl == cs \cap ControlCalls
                  mdl == cs \cap ModelCalls
                  latest == k = Len(intLog) /\ m = Len(intLog[k].applies)
              IN  /\ \A n \in cs : calls[n].x = ap.x /\ calls[n].t = ap.t
                  /\ \A m2 \in 1..Len(intLog[k].applies) :
                        (m2 # m) => CallsOf(k, intLog[k].applies[m2]) \cap cs = {}
                  /\ IF ~HasHint(args, ap.branch)
                     THEN /\ ctl = {}
                          /\ Cardinality(mdl) = 1
                          /\ \A d \in mdl : calls[d].control = <<>>
                     ELSE /\ Cardinality(ctl) = 1
                          /\ Cardinality(mdl) <= 1
                          /\ \A c \in ctl : calls[c].control = <<>>
                          /\ \A c \in ctl, d \in mdl :
                                /\ d = c + 1
                                /\ calls[d].control = ExpectedControl
                                /\ IsNone(args.control_scales)
                                      \/ Len(Val(args.control_scales)) = NumControlOutputs
                          /\ mdl = {} =>
                                /\ latest
                                /\ \/ pc = "control"
                                   \/ /\ pc = "failed" /\ error = ErrScales
                                      /\ Len(Val(args.control_scales)) # NumControlOutputs

C11_Witness ==
    /\ pc = "done"
    /\ control_engine = (0 :> R(1)) @@ (2 :> R(5))
    /\ args.cond_hint /\ args.uncond = Some(FALSE) /\ ~RunUnguided
    /\ args.control_scales = Some(<<R(2)>>)
    /\ Len(calls) >= 3
    /\ calls[1].svc = "control" /\ calls[2].svc = "model" /\ calls[3].svc = "model"
    /\ calls[2].control = <<R(2)>>
    /\ calls[3].control = <<>>

\* C12: in the first PLMS iteration the second evaluation is made on the
\* state reconstructed from the original x and the first raw estimate alone,
\* at the timestep of iteration 1 (the current timestep when the traversal
\* has a single step); the step returns the state reconstructed from the
\* original x, not from the provisional state, with the same coefficient
\* index and the average of the two estimates; no later iteration makes a
\* second evaluation.
C12_Lookahead ==
    (sampler = "PLMS" /\ intLog # <<>>) =>
        LET r == intLog[1]
            prov == get_x_prev_and_pred_x0(tab, r.index, r.x, r.e_raw[1], R(0), R(1))
        IN  /\ Val(r.old_eps) = <<>>
            /\ r.index = total_steps - 1
            /\ r.evals >= 1 => (r.eval_x[1] = r.x /\ r.eval_t[1] = time_range[1])
            /\ Len(r.e_raw) >= 1 => r.evals = 2
            /\ r.evals = 2 =>
                  /\ r.eval_x[2] = prov[1]
                  /\ r.eval_t[2] = (IF Len(time_range) >= 2 THEN time_range[2]
                                    ELSE time_range[1])
                  /\ Val(r.ts_next) = r.eval_t[2]
            /\ r.returned =>
                  LET avg == RDiv(RAdd(r.e_raw[1], r.e_raw[2]), R(2))
                      fin == get_x_prev_and_pred_x0(tab, r.index, r.x, avg, R(0), R(1))
                  IN  /\ Val(r.e_t_prime) = avg
                      /\ Val(r.x_prev) = fin[1]
                      /\ Val(r.pred_x0) = fin[2]
            /\ \A k \in 2..Len(intLog) : intLog[k].evals <= 1

C12_Witness ==
    /\ sampler = "PLMS"
    /\ Len(time_range) >= 3
    /\ Len(intLog) >= 1 /\ intLog[1].returned
    /\ intLog[1].eval_t[2] = time_range[2]
    /\ intLog[1].eval_t[2] # intLog[1].eval_t[1]
    /\ intLog[1].eval_x[2] # intLog[1].x
    /\ intLog[1].e_raw[1] # intLog[1].e_raw[2]
    /\ Val(intLog[1].x_prev) # intLog[1].eval_x[2]
    /\ Val(intLog[1].x_prev) #
          get_x_prev_and_pred_x0(tab, intLog[1].index, intLog[1].eval_x[2],
                                 Val(intLog[1].e_t_prime), R(0), R(1))[1]

IsPrefix(s, t) == Len(s) <= Len(t) /\ s = SubSeq(t, 1, Len(s))

\* whether the outputs of the integrator invocation r are due in the log
DueInLog(r) == r.index % args.log_every_t = 0 \/ r.index = total_steps - 1

\* the snapshots due from the first n iterations, in order: field "x_prev"
\* for the x_inter list, "pred_x0" for the pred_x0 list
RECURSIVE Snapshots(_, _)
Snapshots(n, field) ==
    IF n = 0 THEN <<>>
    ELSE IF intLog[n].returned /\ DueInLog(intLog[n])
    THEN Append(Snapshots(n - 1, field), Val(intLog[n][field]))
    ELSE Snapshots(n - 1, field)

C13_LogState ==
    pc \in {"control", "model", "done"} =>
        /\ Len(intermediates.x_inter) = Len(intermediates.pred_x0)
        /\ Len(intermediates.x_inter) >= 1
        /\ intermediates.x_inter[1] = Val(args.x_T)
        /\ intermediates.pred_x0[1] = Val(args.x_T)
        /\ intermediates.x_inter = <<Val(args.x_T)>> \o Snapshots(Len(intLog), "x_prev")
        /\ intermediates.pred_x0 = <<Val(args.x_T)>> \o Snapshots(Len(intLog), "pred_x0")
        /\ \A k \in 1..Len(intLog) :
              intLog[k].returned => (intLog[k].logged <=> DueInLog(intLog[k]))
        /\ pc = "done" =>
              IF intLog = <<>>
              THEN /\ intermediates.x_inter = <<Val(args.x_T)>>
                   /\ img = Val(args.x_T)
              ELSE /\ intLog[1].logged
                   /\ intermediates.x_inter[2] = Val(intLog[1].x_prev)
                   /\ intermediates.pred_x0[2] = Val(intLog[1].pred_x0)
                   /\ Last(intLog).logged
                   /\ Last(intermediates.x_inter) = Val(Last(intLog).x_prev)
                   /\ Last(intermediates.pred_x0) = Val(Last(intLog).pred_x0)
                   /\ Last(intermediates.x_inter) = img

C13_LogStep ==
    (pc # "idle" /\ pc' # "idle") =>
        /\ IsPrefix(intermediates.x_inter, intermediates'.x_inter)
        /\ IsPrefix(intermediates.pred_x0, intermediates'.pred_x0)
        /\ Len(intermediates'.x_inter) <= Len(intermediates.x_inter) + 1

\* C13: within a run the two lists of the intermediates log only grow, by
\* at most one entry per iteration, and have equal length; both start with
\* the initial sample and then hold, in order, the (x, pred_x0) of exactly
\* the iterations with index % log_every_t = 0 or index = total_steps - 1;
\* when the run has returned after at least one iteration, the outputs of
\* the first and of the last iteration are logged and the last x_inter
\* entry is the returned sample, for every log_every_t >= 1.
C13_IntermediatesLog == []C13_LogState /\ [][C13_LogStep]_vars

C13_Witness ==
    /\ pc = "done"
    /\ args.log_every_t = 3
    /\ Len(intLog) = 3
    /\ intLog[1].logged /\ ~intLog[2].logged /\ intLog[3].logged
    /\ Len(intermediates.x_inter) = 3
    /\ intLog[2].x_prev # intLog[3].x_prev
    /\ Last(intermediates.x_inter) = img

\* C14: sampling_fn called on the fast schedule with an explicit
\* timesteps = n' >= 1 against a plan of N steps traverses the first
\* min(n', N) - 1 elements of the ascending plan and runs exactly that many
\* iterations; when any are kept, the lowest timestep of the plan is among
\* them and the highest of the requested prefix is not; for n' = 1 the run
\* makes no iteration and no service request and returns the initial sample
\* with the intermediates log holding only that sample.
C14_TruncatedRun ==
    (args.entry = "sampling_fn" /\ ~IsNone(args.timesteps) /\ Val(args.timesteps) >= 1
        /\ pc # "idle") =>
        LET N == Len(ddim_timesteps)
            req == Min(Val(args.timesteps), N)
            kept == req - 1
        IN  /\ pc \in {"model", "done"}
            /\ total_steps = kept
            /\ Flip(time_range) = SubSeq(ddim_timesteps, 1, kept)
            /\ Len(intLog) <= kept
            /\ \A k \in 1..Len(intLog) : intLog[k].ts = ddim_timesteps[kept - k + 1]
            /\ pc = "done" =>
                  (Len(intLog) = kept /\ \A k \in 1..kept : intLog[k].returned)
            /\ kept >= 1 =>
                  /\ Last(time_range) = ddim_timesteps[1]
                  /\ \A k \in 1..kept : time_range[k] # ddim_timesteps[req]
                  /\ pc = "done" => Last(intLog).ts = ddim_timesteps[1]
            /\ kept = 0 =>
                  /\ pc = "done"
                  /\ calls = <<>> /\ intLog = <<>>
                  /\ img = Val(args.x_T)
                  /\ intermediates = [x_inter |-> <<Val(args.x_T)>>,
                                       pred_x0 |-> <<Val(args.x_T)>>]
            /\ Val(args.timesteps) = 1 => kept = 0

C14_Witness ==
    /\ pc = "done"
    /\ args.entry = "sampling_fn"
    /\ args.timesteps = Some(3)
    /\ Len(ddim_timesteps) = 4
    /\ Len(intLog) = 2
    /\ intLog[1].ts = ddim_timesteps[2] /\ intLog[2].ts = ddim_timesteps[1]
    /\ Cardinality(ModelCalls) >= 2

====
